---------------------------- MODULE Spec2Model ----------------------------
(***************************************************************************)
(* Streaming block-hash engines of Chocobo1/Hash: MD4 (src/src/md4.h),     *)
(* BLAKE1-256 (src/unnamed/part_000) and BLAKE2s (src/src/blake2s.h).      *)
(*                                                                         *)
(* One engine instance is modelled at a time; Init picks the algorithm.    *)
(* Its members m_buffer, m_sizeCounter and the chaining state are state    *)
(* variables; reset / addData / finalize / toArray are the actions.        *)
(*                                                                         *)
(* Number representation (TLC integers are 32-bit signed):                 *)
(*   Byte   : 0..255                                                       *)
(*   uint32 : <<hi, lo>>, two 16-bit halves                                *)
(*   uint64 : <<l0, l1, l2, l3>>, four 16-bit limbs, least significant     *)
(*            first; all arithmetic is modulo 2^32 resp. 2^64.             *)
(*                                                                         *)
(* Intermediate values are handed on as operator parameters rather than    *)
(* bound by LET wherever the value is a whole engine or working vector.    *)
(***************************************************************************)
EXTENDS Integers, Sequences, FiniteSets, TLC

----------------------------------------------------------------------------
(* Bit arithmetic                                                          *)

RECURSIVE BitAnd(_, _)
\* a & b on naturals
BitAnd(a, b) ==
    IF a = 0 \/ b = 0 THEN 0
    ELSE (a % 2) * (b % 2) + 2 * BitAnd(a \div 2, b \div 2)

\* a & b on bytes, tabulated once
And8 == [a \in 0..255 |-> [b \in 0..255 |-> BitAnd(a, b)]]

\* a & b on 16-bit halves
And16(a, b) == (And8[a \div 256][b \div 256] * 256) + And8[a % 256][b % 256]

\* uint32 & uint32
WAnd(x, y) == <<And16(x[1], y[1]), And16(x[2], y[2])>>

\* uint32 | uint32
WOr(x, y) ==
    <<x[1] + y[1] - And16(x[1], y[1]), x[2] + y[2] - And16(x[2], y[2])>>

\* uint32 ^ uint32
WXor(x, y) ==
    <<x[1] + y[1] - 2 * And16(x[1], y[1]), x[2] + y[2] - 2 * And16(x[2], y[2])>>

\* ~uint32
WNot(x) == <<65535 - x[1], 65535 - x[2]>>

\* uint32 + uint32, wrapping
WAdd(x, y) ==
    <<(x[1] + y[1] + ((x[2] + y[2]) \div 65536)) % 65536, (x[2] + y[2]) % 65536>>

\* rotate left by s (0 < s < 16) on the two halves
RotlSmall(x, s) ==
    <<((x[1] * (2 ^ s)) % 65536) + (x[2] \div (2 ^ (16 - s))),
      ((x[2] * (2 ^ s)) % 65536) + (x[1] \div (2 ^ (16 - s)))>>

\* a uint32 from four bytes, b0 least significant
WordOfBytes(b0, b1, b2, b3) == <<b3 * 256 + b2, b1 * 256 + b0>>

\* a uint32 constant written as two 16-bit halves
W(hi, lo) == <<hi, lo>>

\* rotl<T>(x, s), md4.h: circular left rotation of a uint32
rotl(x, s) ==
    IF s = 0 THEN x
    ELSE IF s < 16 THEN RotlSmall(x, s)
    ELSE IF s = 16 THEN <<x[2], x[1]>>
    ELSE RotlSmall(<<x[2], x[1]>>, s - 16)

\* rotr<T>(x, s): circular right rotation of a uint32
rotr(x, s) == IF s = 0 THEN x ELSE rotl(x, 32 - s)

----------------------------------------------------------------------------
(* uint64 m_sizeCounter                                                    *)

U64OfNat(n) == <<n % 65536, n \div 65536, 0, 0>>

\* the one's complement of a uint64
U64Not(c) == <<65535 - c[1], 65535 - c[2], 65535 - c[3], 65535 - c[4]>>

\* conversion of a (possibly negative) int to uint64
U64OfInt(n) == IF n >= 0 THEN U64OfNat(n) ELSE U64Not(U64OfNat((-n) - 1))

\* the limbs of a uint64 from limb sums that may exceed 16 bits
U64Carry(s1, s2, s3, s4) ==
    << s1 % 65536,
       (s2 + (s1 \div 65536)) % 65536,
       (s3 + ((s2 + (s1 \div 65536)) \div 65536)) % 65536,
       (s4 + ((s3 + ((s2 + (s1 \div 65536)) \div 65536)) \div 65536)) % 65536 >>

\* uint64 + uint64, wrapping at 2^64
U64Add(c, d) == U64Carry(c[1] + d[1], c[2] + d[2], c[3] + d[3], c[4] + d[4])

\* uint64 * 8, wrapping at 2^64
U64Mul8(c) == U64Carry(c[1] * 8, c[2] * 8, c[3] * 8, c[4] * 8)

\* ror<uint32_t>(x, s) on a uint64, s in {0, 32}: static_cast<uint32_t>(x >> s)
ror_u32(c, s) == IF s = 0 THEN <<c[2], c[1]>> ELSE <<c[4], c[3]>>

\* ror<Byte>(w, s) on a uint32, s in {0, 8, 16, 24}: static_cast<Byte>(w >> s)
ror_Byte(w, s) ==
    CASE s = 0  -> w[2] % 256
      [] s = 8  -> w[2] \div 256
      [] s = 16 -> w[1] % 256
      [] s = 24 -> w[1] \div 256

----------------------------------------------------------------------------
(* Buffer<Byte, N>: the bytes m_array[0 .. m_dataEndIdx-1] as a sequence.  *)
(* clear() zeroes the array, so the bytes past the end are always zero.    *)

BLOCK_SIZE == 64

\* Buffer::fill(value, count): append count copies of value
Buffer_fill(buf, value, count) == buf \o [i \in 1..count |-> value]

\* Buffer::push_back(first, last): append a range
Buffer_push_back(buf, range) == buf \o range

\* span.first(n)
First(data, n) == SubSeq(data, 1, n)

\* span.subspan(n)
Subspan(data, n) == SubSeq(data, n + 1, Len(data))

\* the i-th (0-based) 64-byte block of a span
BlockAt(data, i) == SubSeq(data, (i * BLOCK_SIZE) + 1, (i + 1) * BLOCK_SIZE)

\* std::min
Min(a, b) == IF a < b THEN a ELSE b

\* std::max
Max(a, b) == IF a > b THEN a ELSE b

\* std::array<T, N>::at(pos) returns instead of throwing std::out_of_range
Array_at(N, pos) == pos >= 0 /\ pos < N

\* history of Buffer::fill(value, count) on a buffer of capacity N holding
\* `size` bytes: the high-water mark of m_dataEndIdx, and whether the bounds
\* check of a debug build, m_array.at(m_dataEndIdx + count - 1), has thrown
Filled(self, N, size, count) ==
    [self EXCEPT
       !.peak = Max(@, size + count),
       !.outOfBounds = @ \/ ~Array_at(N, (size + count) - 1)]

\* history: one more entry <<what, n>> in the list of the Buffer operations
\* and addDataImpl calls of the call in progress; "m_buffer" stands for the
\* span over the n bytes of the buffer that is passed to addDataImpl
Noted(self, what, n) == [self EXCEPT !.events = Append(@, <<what, n>>)]

\* Buffer::clear()
Cleared(self) == [Noted(self, "clear", 0) EXCEPT !.m_buffer = <<>>]

\* history of Buffer::push_back(first, last) and of the range constructor
\* (size = 0): one fill(*iter) per element of a range of n elements
Pushed(self, N, size, n) ==
    [self EXCEPT
       !.peak = Max(@, size + n),
       !.outOfBounds = @ \/ (n > 0 /\ ~Array_at(N, (size + n) - 1))]

\* the history entry of one block handed to compression: the block, whether
\* m_sizeCounter is mixed into the working vector and its value if it is
\* (<<>> if not), and the finalization flag
Call(blk, sizeCounter, mixed, isFinal) ==
    [block |-> blk, counter |-> IF mixed THEN sizeCounter ELSE <<>>,
     mixed |-> mixed, isFinal |-> isFinal]

----------------------------------------------------------------------------
(* MD4, src/src/md4.h.  An engine value `self` is a record of the members  *)
(* m_buffer, m_sizeCounter and m_h (m_state in MD4) together with two      *)
(* history fields: calls, the blocks handed to compression so far, and     *)
(* padded, the buffer the last finalize() handed to addDataImpl.  Three    *)
(* more history fields describe the call in progress: peak and outOfBounds *)
(* (see Filled) and counts, the values m_sizeCounter has taken.            *)

\* a variant of the capacity: one block
MD4_N_oneBlock == BLOCK_SIZE

\* the capacity N of Buffer<Byte, (BLOCK_SIZE * 2)> m_buffer
MD4_N == BLOCK_SIZE * 2

\* Loader<uint32_t>::operator[] of md4.h: little-endian word idx of a block
Loader_LE(blk, idx) ==
    WordOfBytes(blk[(4 * idx) + 1], blk[(4 * idx) + 2],
                blk[(4 * idx) + 3], blk[(4 * idx) + 4])

MD4_IV == << W(\h6745, \h2301), W(\hefcd, \hab89), W(\h98ba, \hdcfe), W(\h1032, \h5476) >>

\* the 48 unrolled steps: <<round, argument order (1=aa .. 4=dd), k, s>>
MD4_Steps ==
    << <<1, <<1, 2, 3, 4>>, 0, 3>>, <<1, <<4, 1, 2, 3>>, 1, 7>>,
       <<1, <<3, 4, 1, 2>>, 2, 11>>, <<1, <<2, 3, 4, 1>>, 3, 19>>,
       <<1, <<1, 2, 3, 4>>, 4, 3>>, <<1, <<4, 1, 2, 3>>, 5, 7>>,
       <<1, <<3, 4, 1, 2>>, 6, 11>>, <<1, <<2, 3, 4, 1>>, 7, 19>>,
       <<1, <<1, 2, 3, 4>>, 8, 3>>, <<1, <<4, 1, 2, 3>>, 9, 7>>,
       <<1, <<3, 4, 1, 2>>, 10, 11>>, <<1, <<2, 3, 4, 1>>, 11, 19>>,
       <<1, <<1, 2, 3, 4>>, 12, 3>>, <<1, <<4, 1, 2, 3>>, 13, 7>>,
       <<1, <<3, 4, 1, 2>>, 14, 11>>, <<1, <<2, 3, 4, 1>>, 15, 19>>,
       <<2, <<1, 2, 3, 4>>, 0, 3>>, <<2, <<4, 1, 2, 3>>, 4, 5>>,
       <<2, <<3, 4, 1, 2>>, 8, 9>>, <<2, <<2, 3, 4, 1>>, 12, 13>>,
       <<2, <<1, 2, 3, 4>>, 1, 3>>, <<2, <<4, 1, 2, 3>>, 5, 5>>,
       <<2, <<3, 4, 1, 2>>, 9, 9>>, <<2, <<2, 3, 4, 1>>, 13, 13>>,
       <<2, <<1, 2, 3, 4>>, 2, 3>>, <<2, <<4, 1, 2, 3>>, 6, 5>>,
       <<2, <<3, 4, 1, 2>>, 10, 9>>, <<2, <<2, 3, 4, 1>>, 14, 13>>,
       <<2, <<1, 2, 3, 4>>, 3, 3>>, <<2, <<4, 1, 2, 3>>, 7, 5>>,
       <<2, <<3, 4, 1, 2>>, 11, 9>>, <<2, <<2, 3, 4, 1>>, 15, 13>>,
       <<3, <<1, 2, 3, 4>>, 0, 3>>, <<3, <<4, 1, 2, 3>>, 8, 9>>,
       <<3, <<3, 4, 1, 2>>, 4, 11>>, <<3, <<2, 3, 4, 1>>, 12, 15>>,
       <<3, <<1, 2, 3, 4>>, 2, 3>>, <<3, <<4, 1, 2, 3>>, 10, 9>>,
       <<3, <<3, 4, 1, 2>>, 6, 11>>, <<3, <<2, 3, 4, 1>>, 14, 15>>,
       <<3, <<1, 2, 3, 4>>, 1, 3>>, <<3, <<4, 1, 2, 3>>, 9, 9>>,
       <<3, <<3, 4, 1, 2>>, 5, 11>>, <<3, <<2, 3, 4, 1>>, 13, 15>>,
       <<3, <<1, 2, 3, 4>>, 3, 3>>, <<3, <<4, 1, 2, 3>>, 11, 9>>,
       <<3, <<3, 4, 1, 2>>, 7, 11>>, <<3, <<2, 3, 4, 1>>, 15, 15>> >>

MD4_K2 == W(\h5A82, \h7999)
MD4_K3 == W(\h6ED9, \hEBA1)

\* the lambdas round1, round2, round3: the new value of their first argument
MD4_round(rnd, a, b, c, d, xk, s) ==
    CASE rnd = 1 -> rotl(WAdd(WAdd(a, WXor(WAnd(b, WXor(c, d)), d)), xk), s)
      [] rnd = 2 -> rotl(WAdd(WAdd(WAdd(a, WOr(WAnd(b, c), WAnd(WOr(b, c), d))), xk), MD4_K2), s)
      [] rnd = 3 -> rotl(WAdd(WAdd(WAdd(a, WXor(WXor(b, c), d)), xk), MD4_K3), s)

\* one round call st = <<round, order, k, s>> on the registers r = <<aa, bb, cc, dd>>
MD4_step(r, blk, st) ==
    [r EXCEPT ![st[2][1]] =
        MD4_round(st[1], r[st[2][1]], r[st[2][2]], r[st[2][3]], r[st[2][4]],
                  Loader_LE(blk, st[3]), st[4])]

RECURSIVE MD4_run(_, _, _)
\* the round calls j..48 in source order (Len(r) makes r a computed value
\* before the next call is entered)
MD4_run(r, blk, j) ==
    IF j > Len(MD4_Steps) \/ Len(r) # 4 THEN r
    ELSE MD4_run(MD4_step(r, blk, MD4_Steps[j]), blk, j + 1)

\* a variant of the feed-forward that assigns the registers (`=` for `+=`)
MD4_feedForward_assign(h, r) == r

\* m_state[i] += aa, bb, cc, dd
MD4_feedForward(h, r) ==
    <<WAdd(h[1], r[1]), WAdd(h[2], r[2]), WAdd(h[3], r[3]), WAdd(h[4], r[4])>>

\* one iteration of the block loop of MD4::addDataImpl
MD4_compress(h, blk) == MD4_feedForward(h, MD4_run(h, blk, 1))

RECURSIVE MD4_blocks(_, _, _)
\* the block loop of MD4::addDataImpl from iteration i on
MD4_blocks(self, data, i) ==
    IF i >= Len(data) \div BLOCK_SIZE THEN self
    ELSE MD4_blocks(
           [self EXCEPT
              !.m_h = MD4_compress(@, BlockAt(data, i)),
              !.calls = Append(@, Call(BlockAt(data, i), self.m_sizeCounter, FALSE, FALSE))],
           data, i + 1)

\* MD4::addDataImpl(data)
MD4_addDataImpl(self, data) ==
    MD4_blocks([self EXCEPT
                  !.m_sizeCounter = U64Add(@, U64OfNat(Len(data))),
                  !.counts = Append(@, U64Add(self.m_sizeCounter, U64OfNat(Len(data)))),
                  !.events = Append(@, <<"addDataImpl", Len(data)>>)],
               data, 0)

\* a variant of reset() that leaves m_sizeCounter as it is
MD4_reset_keepCounter(self) == [self EXCEPT !.m_buffer = <<>>, !.m_h = MD4_IV]

\* MD4::reset()
MD4_reset(self) ==
    [self EXCEPT !.m_buffer = <<>>, !.m_sizeCounter = U64OfNat(0), !.m_h = MD4_IV,
                 !.counts = Append(@, U64OfNat(0)),
                 !.events = Append(@, <<"clear", 0>>)]

\* MD4::toArray()
MD4_toArray(self) ==
    [n \in 1..16 |-> ror_Byte(self.m_h[((n - 1) \div 4) + 1], ((n - 1) % 4) * 8)]

\* a variant of the part after the top-up that counts the bytes it only stores
MD4_addData_rest_counted(self, data) ==
    IF Len(data) < BLOCK_SIZE
      THEN [Pushed(self, MD4_N, 0, Len(data))
              EXCEPT !.m_buffer = data,
                     !.m_sizeCounter = U64Add(@, U64OfNat(Len(data))),
                     !.events = Append(@, <<"assign", Len(data)>>)]
    ELSE [Pushed(MD4_addDataImpl(self, First(data, Len(data) - (Len(data) % BLOCK_SIZE))),
                 MD4_N, 0, Len(data) % BLOCK_SIZE)
            EXCEPT !.m_buffer =
              IF Len(data) - (Len(data) % BLOCK_SIZE) < Len(data)
                THEN Subspan(data, Len(data) - (Len(data) % BLOCK_SIZE))
              ELSE @,
                   !.events =
              IF Len(data) - (Len(data) % BLOCK_SIZE) < Len(data)
                THEN Append(@, <<"assign", Len(data) % BLOCK_SIZE>>)
              ELSE @]

\* MD4::addData from `const size_t dataSize = data.size()` on
MD4_addData_rest(self, data) ==
    IF Len(data) < BLOCK_SIZE
      THEN [Pushed(self, MD4_N, 0, Len(data))
              EXCEPT !.m_buffer = data,
                     !.events = Append(@, <<"assign", Len(data)>>)]
    ELSE [Pushed(MD4_addDataImpl(self, First(data, Len(data) - (Len(data) % BLOCK_SIZE))),
                 MD4_N, 0, Len(data) % BLOCK_SIZE)
            EXCEPT !.m_buffer =
              IF Len(data) - (Len(data) % BLOCK_SIZE) < Len(data)
                THEN Subspan(data, Len(data) - (Len(data) % BLOCK_SIZE))
              ELSE @,
                   !.events =
              IF Len(data) - (Len(data) % BLOCK_SIZE) < Len(data)
                THEN Append(@, <<"assign", Len(data) % BLOCK_SIZE>>)
              ELSE @]

\* a variant of the top-up part without `data = data.subspan(len)`: the bytes
\* that completed the buffer are processed a second time
MD4_addData_fill_refeed(self, inData, len) ==
    IF Len(self.m_buffer) + len < BLOCK_SIZE
      THEN [Pushed(self, MD4_N, Len(self.m_buffer), len)
              EXCEPT !.m_buffer = Buffer_push_back(@, First(inData, len)),
                     !.events = Append(@, <<"push_back", len>>)]
    ELSE MD4_addData_rest(
           Cleared(
             MD4_addDataImpl(
               Noted(Noted(Pushed(self, MD4_N, Len(self.m_buffer), len), "push_back", len),
                     "m_buffer", Len(self.m_buffer) + len),
               Buffer_push_back(self.m_buffer, First(inData, len)))),
           inData)

\* MD4::addData, the `if (!m_buffer.empty())` part with its local len
MD4_addData_fill(self, inData, len) ==
    IF Len(self.m_buffer) + len < BLOCK_SIZE
      THEN [Pushed(self, MD4_N, Len(self.m_buffer), len)
              EXCEPT !.m_buffer = Buffer_push_back(@, First(inData, len)),
                     !.events = Append(@, <<"push_back", len>>)]
    ELSE MD4_addData_rest(
           Cleared(
             MD4_addDataImpl(
               Noted(Noted(Pushed(self, MD4_N, Len(self.m_buffer), len), "push_back", len),
                     "m_buffer", Len(self.m_buffer) + len),
               Buffer_push_back(self.m_buffer, First(inData, len)))),
           Subspan(inData, len))

\* MD4::addData(inData)
MD4_addData(self, inData) ==
    IF self.m_buffer # <<>>
      THEN MD4_addData_fill(self, inData,
                            Min(BLOCK_SIZE - Len(self.m_buffer), Len(inData)))
    ELSE MD4_addData_rest(self, inData)

\* a variant of the loop that writes the high word before the low word
MD4_writeSize_swapped(buf, sizeCounterBitsL, sizeCounterBitsH) ==
    [n \in 1..Len(buf) |->
       IF n > Len(buf) - 4 THEN ror_Byte(sizeCounterBitsL, 8 * ((n - 1) - (Len(buf) - 4)))
       ELSE IF n > Len(buf) - 8 THEN ror_Byte(sizeCounterBitsH, 8 * ((n - 1) - (Len(buf) - 8)))
       ELSE buf[n]]

\* MD4::finalize, the loop writing the bit count into the last 8 bytes
MD4_writeSize(buf, sizeCounterBitsL, sizeCounterBitsH) ==
    [n \in 1..Len(buf) |->
       IF n > Len(buf) - 4 THEN ror_Byte(sizeCounterBitsH, 8 * ((n - 1) - (Len(buf) - 4)))
       ELSE IF n > Len(buf) - 8 THEN ror_Byte(sizeCounterBitsL, 8 * ((n - 1) - (Len(buf) - 8)))
       ELSE buf[n]]

\* a variant that leaves out the 8 bytes of the bit count
MD4_zeroPad_short(buf) ==
    Buffer_fill(buf, 0, BLOCK_SIZE - ((Len(buf) + 8) % BLOCK_SIZE))

\* MD4::finalize, the zero padding after the 0x80 byte has been appended
MD4_zeroPad(buf) ==
    Buffer_fill(buf, 0, (BLOCK_SIZE - ((Len(buf) + 8) % BLOCK_SIZE)) + 8)

\* the buffer MD4::finalize hands to addDataImpl; self.m_sizeCounter has
\* already been advanced by the buffered bytes
MD4_padding(self) ==
    MD4_writeSize(MD4_zeroPad(Buffer_fill(self.m_buffer, 128, 1)),
                  ror_u32(U64Mul8(self.m_sizeCounter), 0),
                  ror_u32(U64Mul8(self.m_sizeCounter), 32))

\* a variant without `m_buffer.clear()`: the padded blocks stay in the buffer
MD4_finalize_run_noClear(self) ==
    [MD4_addDataImpl(Noted(self, "m_buffer", Len(self.padded)), self.padded)
       EXCEPT !.m_buffer = self.padded]

\* MD4::finalize, `addDataImpl({m_buffer.begin(), m_buffer.end()}); m_buffer.clear()`
MD4_finalize_run(self) ==
    Cleared(MD4_addDataImpl(Noted(self, "m_buffer", Len(self.padded)), self.padded))

\* the history of the two fill calls of MD4::finalize: `fill(1 << 7)` and
\* `fill(0, (len + 8))`
MD4_finalize_fills(self) ==
    Noted(
      Filled(Noted(Filled(self, MD4_N, Len(self.m_buffer), 1), "fill", 1),
             MD4_N, Len(self.m_buffer) + 1,
             (BLOCK_SIZE - ((Len(self.m_buffer) + 1 + 8) % BLOCK_SIZE)) + 8),
      "fill", (BLOCK_SIZE - ((Len(self.m_buffer) + 1 + 8) % BLOCK_SIZE)) + 8)

\* MD4::finalize from `m_buffer.fill(1 << 7)` up to the call of addDataImpl
MD4_finalize_pad(self) ==
    [MD4_finalize_fills(self) EXCEPT !.padded = MD4_padding(self)]

\* MD4::finalize()
MD4_finalize(self) ==
    MD4_finalize_run(MD4_finalize_pad(
      [self EXCEPT
         !.m_sizeCounter = U64Add(@, U64OfNat(Len(self.m_buffer))),
         !.counts = Append(@, U64Add(self.m_sizeCounter, U64OfNat(Len(self.m_buffer))))]))

----------------------------------------------------------------------------
(* BLAKE1-256, src/unnamed/part_000.  m_sizeCounter counts message bits.   *)

\* Loader<uint32_t>::operator[] of part_000: big-endian word idx of a block
Loader_BE(blk, idx) ==
    WordOfBytes(blk[(4 * idx) + 4], blk[(4 * idx) + 3],
                blk[(4 * idx) + 2], blk[(4 * idx) + 1])

cTable ==
    << W(\h243f, \h6a88), W(\h85a3, \h08d3), W(\h1319, \h8a2e), W(\h0370, \h7344),
       W(\ha409, \h3822), W(\h299f, \h31d0), W(\h082e, \hfa98), W(\hec4e, \h6c89),
       W(\h4528, \h21e6), W(\h38d0, \h1377), W(\hbe54, \h66cf), W(\h34e9, \h0c6c),
       W(\hc0ac, \h29b7), W(\hc97c, \h50dd), W(\h3f84, \hd5b5), W(\hb547, \h0917) >>

Blake1_IV ==
    << W(\h6a09, \he667), W(\hbb67, \hae85), W(\h3c6e, \hf372), W(\ha54f, \hf53a),
       W(\h510e, \h527f), W(\h9b05, \h688c), W(\h1f83, \hd9ab), W(\h5be0, \hcd19) >>

\* the 112 unrolled blakeMix calls: <<a, b, c, d, x, y, constant1, constant2>>, indices into v, m and cTable
Blake1_Mixes ==
    << <<0, 4, 8, 12, 0, 1, 1, 0>>, <<1, 5, 9, 13, 2, 3, 3, 2>>, <<2, 6, 10, 14, 4, 5, 5, 4>>,
       <<3, 7, 11, 15, 6, 7, 7, 6>>, <<0, 5, 10, 15, 8, 9, 9, 8>>, <<1, 6, 11, 12, 10, 11, 11, 10>>,
       <<2, 7, 8, 13, 12, 13, 13, 12>>, <<3, 4, 9, 14, 14, 15, 15, 14>>, <<0, 4, 8, 12, 14, 10, 10, 14>>,
       <<1, 5, 9, 13, 4, 8, 8, 4>>, <<2, 6, 10, 14, 9, 15, 15, 9>>, <<3, 7, 11, 15, 13, 6, 6, 13>>,
       <<0, 5, 10, 15, 1, 12, 12, 1>>, <<1, 6, 11, 12, 0, 2, 2, 0>>, <<2, 7, 8, 13, 11, 7, 7, 11>>,
       <<3, 4, 9, 14, 5, 3, 3, 5>>, <<0, 4, 8, 12, 11, 8, 8, 11>>, <<1, 5, 9, 13, 12, 0, 0, 12>>,
       <<2, 6, 10, 14, 5, 2, 2, 5>>, <<3, 7, 11, 15, 15, 13, 13, 15>>, <<0, 5, 10, 15, 10, 14, 14, 10>>,
       <<1, 6, 11, 12, 3, 6, 6, 3>>, <<2, 7, 8, 13, 7, 1, 1, 7>>, <<3, 4, 9, 14, 9, 4, 4, 9>>,
       <<0, 4, 8, 12, 7, 9, 9, 7>>, <<1, 5, 9, 13, 3, 1, 1, 3>>, <<2, 6, 10, 14, 13, 12, 12, 13>>,
       <<3, 7, 11, 15, 11, 14, 14, 11>>, <<0, 5, 10, 15, 2, 6, 6, 2>>, <<1, 6, 11, 12, 5, 10, 10, 5>>,
       <<2, 7, 8, 13, 4, 0, 0, 4>>, <<3, 4, 9, 14, 15, 8, 8, 15>>, <<0, 4, 8, 12, 9, 0, 0, 9>>,
       <<1, 5, 9, 13, 5, 7, 7, 5>>, <<2, 6, 10, 14, 2, 4, 4, 2>>, <<3, 7, 11, 15, 10, 15, 15, 10>>,
       <<0, 5, 10, 15, 14, 1, 1, 14>>, <<1, 6, 11, 12, 11, 12, 12, 11>>, <<2, 7, 8, 13, 6, 8, 8, 6>>,
       <<3, 4, 9, 14, 3, 13, 13, 3>>, <<0, 4, 8, 12, 2, 12, 12, 2>>, <<1, 5, 9, 13, 6, 10, 10, 6>>,
       <<2, 6, 10, 14, 0, 11, 11, 0>>, <<3, 7, 11, 15, 8, 3, 3, 8>>, <<0, 5, 10, 15, 4, 13, 13, 4>>,
       <<1, 6, 11, 12, 7, 5, 5, 7>>, <<2, 7, 8, 13, 15, 14, 14, 15>>, <<3, 4, 9, 14, 1, 9, 9, 1>>,
       <<0, 4, 8, 12, 12, 5, 5, 12>>, <<1, 5, 9, 13, 1, 15, 15, 1>>, <<2, 6, 10, 14, 14, 13, 13, 14>>,
       <<3, 7, 11, 15, 4, 10, 10, 4>>, <<0, 5, 10, 15, 0, 7, 7, 0>>, <<1, 6, 11, 12, 6, 3, 3, 6>>,
       <<2, 7, 8, 13, 9, 2, 2, 9>>, <<3, 4, 9, 14, 8, 11, 11, 8>>, <<0, 4, 8, 12, 13, 11, 11, 13>>,
       <<1, 5, 9, 13, 7, 14, 14, 7>>, <<2, 6, 10, 14, 12, 1, 1, 12>>, <<3, 7, 11, 15, 3, 9, 9, 3>>,
       <<0, 5, 10, 15, 5, 0, 0, 5>>, <<1, 6, 11, 12, 15, 4, 4, 15>>, <<2, 7, 8, 13, 8, 6, 6, 8>>,
       <<3, 4, 9, 14, 2, 10, 10, 2>>, <<0, 4, 8, 12, 6, 15, 15, 6>>, <<1, 5, 9, 13, 14, 9, 9, 14>>,
       <<2, 6, 10, 14, 11, 3, 3, 11>>, <<3, 7, 11, 15, 0, 8, 8, 0>>, <<0, 5, 10, 15, 12, 2, 2, 12>>,
       <<1, 6, 11, 12, 13, 7, 7, 13>>, <<2, 7, 8, 13, 1, 4, 4, 1>>, <<3, 4, 9, 14, 10, 5, 5, 10>>,
       <<0, 4, 8, 12, 10, 2, 2, 10>>, <<1, 5, 9, 13, 8, 4, 4, 8>>, <<2, 6, 10, 14, 7, 6, 6, 7>>,
       <<3, 7, 11, 15, 1, 5, 5, 1>>, <<0, 5, 10, 15, 15, 11, 11, 15>>, <<1, 6, 11, 12, 9, 14, 14, 9>>,
       <<2, 7, 8, 13, 3, 12, 12, 3>>, <<3, 4, 9, 14, 13, 0, 0, 13>>, <<0, 4, 8, 12, 0, 1, 1, 0>>,
       <<1, 5, 9, 13, 2, 3, 3, 2>>, <<2, 6, 10, 14, 4, 5, 5, 4>>, <<3, 7, 11, 15, 6, 7, 7, 6>>,
       <<0, 5, 10, 15, 8, 9, 9, 8>>, <<1, 6, 11, 12, 10, 11, 11, 10>>, <<2, 7, 8, 13, 12, 13, 13, 12>>,
       <<3, 4, 9, 14, 14, 15, 15, 14>>, <<0, 4, 8, 12, 14, 10, 10, 14>>, <<1, 5, 9, 13, 4, 8, 8, 4>>,
       <<2, 6, 10, 14, 9, 15, 15, 9>>, <<3, 7, 11, 15, 13, 6, 6, 13>>, <<0, 5, 10, 15, 1, 12, 12, 1>>,
       <<1, 6, 11, 12, 0, 2, 2, 0>>, <<2, 7, 8, 13, 11, 7, 7, 11>>, <<3, 4, 9, 14, 5, 3, 3, 5>>,
       <<0, 4, 8, 12, 11, 8, 8, 11>>, <<1, 5, 9, 13, 12, 0, 0, 12>>, <<2, 6, 10, 14, 5, 2, 2, 5>>,
       <<3, 7, 11, 15, 15, 13, 13, 15>>, <<0, 5, 10, 15, 10, 14, 14, 10>>, <<1, 6, 11, 12, 3, 6, 6, 3>>,
       <<2, 7, 8, 13, 7, 1, 1, 7>>, <<3, 4, 9, 14, 9, 4, 4, 9>>, <<0, 4, 8, 12, 7, 9, 9, 7>>,
       <<1, 5, 9, 13, 3, 1, 1, 3>>, <<2, 6, 10, 14, 13, 12, 12, 13>>, <<3, 7, 11, 15, 11, 14, 14, 11>>,
       <<0, 5, 10, 15, 2, 6, 6, 2>>, <<1, 6, 11, 12, 5, 10, 10, 5>>, <<2, 7, 8, 13, 4, 0, 0, 4>>,
       <<3, 4, 9, 14, 15, 8, 8, 15>> >>

\* the macro blakeMix is two half steps over the registers a, b, c, d with
\* a message term xc and two rotation counts; the four statements of a half
\* step, each handing its result to the next:
\*     b = rotr((b ^ c), r2)
blakeMix_b(a, b, c, d, r2) == <<a, rotr(WXor(b, c), r2), c, d>>

\*     c = (c + d)
blakeMix_c(a, b, c, d, r2) == blakeMix_b(a, b, WAdd(c, d), d, r2)

\*     d = rotr((d ^ a), r1)
blakeMix_d(a, b, c, d, r1, r2) == blakeMix_c(a, b, c, rotr(WXor(d, a), r1), r2)

\*     a = (a + b + xc)
blakeMix_a(a, b, c, d, xc, r1, r2) == blakeMix_d(WAdd(WAdd(a, b), xc), b, c, d, r1, r2)

\* a half step on the register tuple q = <<a, b, c, d>>
blakeMix_half(q, xc, r1, r2) == blakeMix_a(q[1], q[2], q[3], q[4], xc, r1, r2)

\* the registers written back to their places in the working vector
blakeMix_store(v, ia, ib, ic, id, q) ==
    [v EXCEPT ![ia] = q[1], ![ib] = q[2], ![ic] = q[3], ![id] = q[4]]

\* the macro blakeMix of BLAKE1-256 applied to the working vector v (1-based)
Blake1_blakeMix(v, ia, ib, ic, id, x, y, constant1, constant2) ==
    blakeMix_store(v, ia, ib, ic, id,
      blakeMix_half(
        blakeMix_half(<<v[ia], v[ib], v[ic], v[id]>>, WXor(x, constant1), 16, 12),
        WXor(y, constant2), 8, 7))

\* a variant that pairs each message word with the constant of its own index
Blake1_step_ownConstant(v, blk, g) ==
    Blake1_blakeMix(v, g[1] + 1, g[2] + 1, g[3] + 1, g[4] + 1,
                    Loader_BE(blk, g[5]), Loader_BE(blk, g[6]),
                    cTable[g[5] + 1], cTable[g[6] + 1])

\* the unrolled blakeMix call g = <<a, b, c, d, x, y, constant1, constant2>>
Blake1_step(v, blk, g) ==
    Blake1_blakeMix(v, g[1] + 1, g[2] + 1, g[3] + 1, g[4] + 1,
                    Loader_BE(blk, g[5]), Loader_BE(blk, g[6]),
                    cTable[g[7] + 1], cTable[g[8] + 1])

RECURSIVE Blake1_calls(_, _, _, _)
\* n consecutive blakeMix calls from the j-th (1-based) on, in source order
Blake1_calls(v, blk, j, n) ==
    IF n = 0 THEN v
    ELSE Blake1_calls(Blake1_step(v, blk, Blake1_Mixes[j]), blk, j + 1, n - 1)

RECURSIVE Blake1_run(_, _, _)
\* all blakeMix calls from the j-th on, eight at a time (Len(v) makes v a
\* computed value before the next eight are entered)
Blake1_run(v, blk, j) ==
    IF j > Len(Blake1_Mixes) \/ Len(v) # 16 THEN v
    ELSE Blake1_run(Blake1_calls(v, blk, j, 8), blk, j + 8)

\* m_h[i] ^= (v[i] ^ v[i + 8]), the same in both BLAKE variants
Blake_fold(h, v) == [i \in 1..8 |-> WXor(h[i], WXor(v[i], v[i + 8]))]

\* the capacity N of Buffer<Byte, (BLOCK_SIZE * 2)> m_buffer
Blake1_N == BLOCK_SIZE * 2

\* the working vector v of Blake1_256::addDataImpl before the blakeMix calls
Blake1_v(h, sizeCounter, nonPaddingBits) ==
    IF nonPaddingBits > 0
      THEN [(h \o SubSeq(cTable, 1, 8)) EXCEPT
              ![13] = WXor(@, ror_u32(sizeCounter, 0)),
              ![14] = WXor(@, ror_u32(sizeCounter, 0)),
              ![15] = WXor(@, ror_u32(sizeCounter, 32)),
              ![16] = WXor(@, ror_u32(sizeCounter, 32))]
    ELSE h \o SubSeq(cTable, 1, 8)

\* the new m_h of one iteration of the block loop of Blake1_256::addDataImpl
Blake1_compress(h, blk, sizeCounter, nonPaddingBits) ==
    Blake_fold(h, Blake1_run(Blake1_v(h, sizeCounter, nonPaddingBits), blk, 1))

\* one iteration of the block loop; sizeCounter is m_sizeCounter after
\* `m_sizeCounter += nonPaddingBits`
Blake1_block(self, blk, nonPaddingBits, sizeCounter) ==
    [self EXCEPT
       !.m_sizeCounter = sizeCounter,
       !.counts = Append(@, sizeCounter),
       !.m_h = Blake1_compress(@, blk, sizeCounter, nonPaddingBits),
       !.calls = Append(@, Call(blk, sizeCounter, nonPaddingBits > 0, FALSE))]

RECURSIVE Blake1_blocks(_, _, _, _)
\* the block loop of Blake1_256::addDataImpl from iteration iter on
Blake1_blocks(self, data, paddingLen, iter) ==
    IF iter >= Len(data) \div BLOCK_SIZE THEN self
    ELSE Blake1_blocks(
           Blake1_block(self, BlockAt(data, iter), (BLOCK_SIZE - paddingLen) * 8,
                        U64Add(self.m_sizeCounter,
                               U64OfInt((BLOCK_SIZE - paddingLen) * 8))),
           data, paddingLen, iter + 1)

\* Blake1_256::addDataImpl(data, paddingLen)
Blake1_addDataImpl(self, data, paddingLen) ==
    Blake1_blocks(Noted(self, "addDataImpl", Len(data)), data, paddingLen, 0)

\* Blake1_256::reset()
Blake1_reset(self) ==
    [self EXCEPT !.m_buffer = <<>>, !.m_sizeCounter = U64OfNat(0), !.m_h = Blake1_IV,
                 !.counts = Append(@, U64OfNat(0)),
                 !.events = Append(@, <<"clear", 0>>)]

\* Blake1_256::toArray()
Blake1_toArray(self) ==
    [n \in 1..32 |-> ror_Byte(self.m_h[((n - 1) \div 4) + 1], (3 - ((n - 1) % 4)) * 8)]

\* a variant that takes the leftover bytes from the beginning of data
Blake1_addData_rest_head(self, data) ==
    IF Len(data) < BLOCK_SIZE
      THEN [Pushed(self, Blake1_N, 0, Len(data))
              EXCEPT !.m_buffer = data,
                     !.events = Append(@, <<"assign", Len(data)>>)]
    ELSE [Pushed(Blake1_addDataImpl(self, First(data, Len(data) - (Len(data) % BLOCK_SIZE)), 0),
                 Blake1_N, 0, Len(data) % BLOCK_SIZE)
            EXCEPT !.m_buffer =
              IF Len(data) - (Len(data) % BLOCK_SIZE) < Len(data)
                THEN First(data, Len(data) % BLOCK_SIZE)
              ELSE @,
                   !.events =
              IF Len(data) - (Len(data) % BLOCK_SIZE) < Len(data)
                THEN Append(@, <<"assign", Len(data) % BLOCK_SIZE>>)
              ELSE @]

\* Blake1_256::addData from `const size_t dataSize = data.size()` on
Blake1_addData_rest(self, data) ==
    IF Len(data) < BLOCK_SIZE
      THEN [Pushed(self, Blake1_N, 0, Len(data))
              EXCEPT !.m_buffer = data,
                     !.events = Append(@, <<"assign", Len(data)>>)]
    ELSE [Pushed(Blake1_addDataImpl(self, First(data, Len(data) - (Len(data) % BLOCK_SIZE)), 0),
                 Blake1_N, 0, Len(data) % BLOCK_SIZE)
            EXCEPT !.m_buffer =
              IF Len(data) - (Len(data) % BLOCK_SIZE) < Len(data)
                THEN Subspan(data, Len(data) - (Len(data) % BLOCK_SIZE))
              ELSE @,
                   !.events =
              IF Len(data) - (Len(data) % BLOCK_SIZE) < Len(data)
                THEN Append(@, <<"assign", Len(data) % BLOCK_SIZE>>)
              ELSE @]

\* a variant of the top-up part that also returns when the buffer has just
\* become full
Blake1_addData_fill_keepFull(self, inData, len) ==
    IF Len(self.m_buffer) + len <= BLOCK_SIZE
      THEN [Pushed(self, Blake1_N, Len(self.m_buffer), len)
              EXCEPT !.m_buffer = Buffer_push_back(@, First(inData, len)),
                     !.events = Append(@, <<"push_back", len>>)]
    ELSE Blake1_addData_rest(
           Cleared(
             Blake1_addDataImpl(
               Noted(Noted(Pushed(self, Blake1_N, Len(self.m_buffer), len), "push_back", len),
                     "m_buffer", Len(self.m_buffer) + len),
               Buffer_push_back(self.m_buffer, First(inData, len)), 0)),
           Subspan(inData, len))

\* Blake1_256::addData, the `if (!m_buffer.empty())` part with its local len
Blake1_addData_fill(self, inData, len) ==
    IF Len(self.m_buffer) + len < BLOCK_SIZE
      THEN [Pushed(self, Blake1_N, Len(self.m_buffer), len)
              EXCEPT !.m_buffer = Buffer_push_back(@, First(inData, len)),
                     !.events = Append(@, <<"push_back", len>>)]
    ELSE Blake1_addData_rest(
           Cleared(
             Blake1_addDataImpl(
               Noted(Noted(Pushed(self, Blake1_N, Len(self.m_buffer), len), "push_back", len),
                     "m_buffer", Len(self.m_buffer) + len),
               Buffer_push_back(self.m_buffer, First(inData, len)), 0)),
           Subspan(inData, len))

\* Blake1_256::addData(inData)
Blake1_addData(self, inData) ==
    IF self.m_buffer # <<>>
      THEN Blake1_addData_fill(self, inData,
                               Min(BLOCK_SIZE - Len(self.m_buffer), Len(inData)))
    ELSE Blake1_addData_rest(self, inData)

\* the local `len` of Blake1_256::finalize, from the buffer with 0x80 appended
Blake1_padLen(buf) == BLOCK_SIZE - ((Len(buf) + 8) % BLOCK_SIZE)

\* Blake1_256::finalize, `m_buffer[size - 9] |= 1` and the loop writing the
\* bit count into the last 8 bytes
Blake1_writeSize(buf, sizeCounterBitsL, sizeCounterBitsH) ==
    [n \in 1..Len(buf) |->
       IF n > Len(buf) - 4 THEN ror_Byte(sizeCounterBitsL, 8 * (3 - ((n - 1) - (Len(buf) - 4))))
       ELSE IF n > Len(buf) - 8 THEN ror_Byte(sizeCounterBitsH, 8 * (3 - ((n - 1) - (Len(buf) - 8))))
       ELSE IF n = Len(buf) - 8 THEN (buf[n] + 1) - And8[buf[n]][1]
       ELSE buf[n]]

\* Blake1_256::finalize, the zero padding after the 0x80 byte has been appended
Blake1_zeroPad(buf) == Buffer_fill(buf, 0, Blake1_padLen(buf) + 8)

\* the buffer Blake1_256::finalize hands to addDataImpl
Blake1_padding(self, sizeCounterBits) ==
    Blake1_writeSize(Blake1_zeroPad(Buffer_fill(self.m_buffer, 128, 1)),
                     ror_u32(sizeCounterBits, 0), ror_u32(sizeCounterBits, 32))

\* Blake1_256::finalize, `addDataImpl({...}, (len + 9)); m_buffer.clear()`
Blake1_finalize_run(self, paddingLen) ==
    Cleared(Blake1_addDataImpl(Noted(self, "m_buffer", Len(self.padded)),
                               self.padded, paddingLen))

\* the history of the two fill calls of Blake1_256::finalize: `fill(1 << 7)`
\* and `fill(0, (len + 8))`
Blake1_finalize_fills(self) ==
    Noted(
      Filled(Noted(Filled(self, Blake1_N, Len(self.m_buffer), 1), "fill", 1),
             Blake1_N, Len(self.m_buffer) + 1,
             Blake1_padLen(Buffer_fill(self.m_buffer, 128, 1)) + 8),
      "fill", Blake1_padLen(Buffer_fill(self.m_buffer, 128, 1)) + 8)

\* Blake1_256::finalize()
Blake1_finalize(self) ==
    Blake1_finalize_run(
      [Blake1_finalize_fills(self) EXCEPT !.padded =
         Blake1_padding(self, U64Add(self.m_sizeCounter,
                                     U64OfNat(Len(self.m_buffer) * 8)))],
      Blake1_padLen(Buffer_fill(self.m_buffer, 128, 1)) + 9)

----------------------------------------------------------------------------
(* BLAKE2s, src/src/blake2s.h.  m_sizeCounter counts message bytes; the    *)
(* Loader of blake2s.h is little-endian like the one of md4.h.             *)

m_initializationVector ==
    << W(\h6a09, \he667), W(\hbb67, \hae85), W(\h3c6e, \hf372), W(\ha54f, \hf53a),
       W(\h510e, \h527f), W(\h9b05, \h688c), W(\h1f83, \hd9ab), W(\h5be0, \hcd19) >>

\* the 80 unrolled blakeMix calls: <<a, b, c, d, x, y>>, indices into v and m
Blake2s_Mixes ==
    << <<0, 4, 8, 12, 0, 1>>, <<1, 5, 9, 13, 2, 3>>, <<2, 6, 10, 14, 4, 5>>, <<3, 7, 11, 15, 6, 7>>,
       <<0, 5, 10, 15, 8, 9>>, <<1, 6, 11, 12, 10, 11>>, <<2, 7, 8, 13, 12, 13>>, <<3, 4, 9, 14, 14, 15>>,
       <<0, 4, 8, 12, 14, 10>>, <<1, 5, 9, 13, 4, 8>>, <<2, 6, 10, 14, 9, 15>>, <<3, 7, 11, 15, 13, 6>>,
       <<0, 5, 10, 15, 1, 12>>, <<1, 6, 11, 12, 0, 2>>, <<2, 7, 8, 13, 11, 7>>, <<3, 4, 9, 14, 5, 3>>,
       <<0, 4, 8, 12, 11, 8>>, <<1, 5, 9, 13, 12, 0>>, <<2, 6, 10, 14, 5, 2>>, <<3, 7, 11, 15, 15, 13>>,
       <<0, 5, 10, 15, 10, 14>>, <<1, 6, 11, 12, 3, 6>>, <<2, 7, 8, 13, 7, 1>>, <<3, 4, 9, 14, 9, 4>>,
       <<0, 4, 8, 12, 7, 9>>, <<1, 5, 9, 13, 3, 1>>, <<2, 6, 10, 14, 13, 12>>, <<3, 7, 11, 15, 11, 14>>,
       <<0, 5, 10, 15, 2, 6>>, <<1, 6, 11, 12, 5, 10>>, <<2, 7, 8, 13, 4, 0>>, <<3, 4, 9, 14, 15, 8>>,
       <<0, 4, 8, 12, 9, 0>>, <<1, 5, 9, 13, 5, 7>>, <<2, 6, 10, 14, 2, 4>>, <<3, 7, 11, 15, 10, 15>>,
       <<0, 5, 10, 15, 14, 1>>, <<1, 6, 11, 12, 11, 12>>, <<2, 7, 8, 13, 6, 8>>, <<3, 4, 9, 14, 3, 13>>,
       <<0, 4, 8, 12, 2, 12>>, <<1, 5, 9, 13, 6, 10>>, <<2, 6, 10, 14, 0, 11>>, <<3, 7, 11, 15, 8, 3>>,
       <<0, 5, 10, 15, 4, 13>>, <<1, 6, 11, 12, 7, 5>>, <<2, 7, 8, 13, 15, 14>>, <<3, 4, 9, 14, 1, 9>>,
       <<0, 4, 8, 12, 12, 5>>, <<1, 5, 9, 13, 1, 15>>, <<2, 6, 10, 14, 14, 13>>, <<3, 7, 11, 15, 4, 10>>,
       <<0, 5, 10, 15, 0, 7>>, <<1, 6, 11, 12, 6, 3>>, <<2, 7, 8, 13, 9, 2>>, <<3, 4, 9, 14, 8, 11>>,
       <<0, 4, 8, 12, 13, 11>>, <<1, 5, 9, 13, 7, 14>>, <<2, 6, 10, 14, 12, 1>>, <<3, 7, 11, 15, 3, 9>>,
       <<0, 5, 10, 15, 5, 0>>, <<1, 6, 11, 12, 15, 4>>, <<2, 7, 8, 13, 8, 6>>, <<3, 4, 9, 14, 2, 10>>,
       <<0, 4, 8, 12, 6, 15>>, <<1, 5, 9, 13, 14, 9>>, <<2, 6, 10, 14, 11, 3>>, <<3, 7, 11, 15, 0, 8>>,
       <<0, 5, 10, 15, 12, 2>>, <<1, 6, 11, 12, 13, 7>>, <<2, 7, 8, 13, 1, 4>>, <<3, 4, 9, 14, 10, 5>>,
       <<0, 4, 8, 12, 10, 2>>, <<1, 5, 9, 13, 8, 4>>, <<2, 6, 10, 14, 7, 6>>, <<3, 7, 11, 15, 1, 5>>,
       <<0, 5, 10, 15, 15, 11>>, <<1, 6, 11, 12, 9, 14>>, <<2, 7, 8, 13, 3, 12>>, <<3, 4, 9, 14, 13, 0>> >>

\* the macro blakeMix of BLAKE2s applied to the working vector v (1-based)
Blake2s_blakeMix(v, ia, ib, ic, id, x, y) ==
    blakeMix_store(v, ia, ib, ic, id,
      blakeMix_half(
        blakeMix_half(<<v[ia], v[ib], v[ic], v[id]>>, x, 16, 12),
        y, 8, 7))

\* the unrolled blakeMix call g = <<a, b, c, d, x, y>>
Blake2s_step(v, blk, g) ==
    Blake2s_blakeMix(v, g[1] + 1, g[2] + 1, g[3] + 1, g[4] + 1,
                     Loader_LE(blk, g[5]), Loader_LE(blk, g[6]))

RECURSIVE Blake2s_calls(_, _, _, _)
\* n consecutive blakeMix calls from the j-th (1-based) on, in source order
Blake2s_calls(v, blk, j, n) ==
    IF n = 0 THEN v
    ELSE Blake2s_calls(Blake2s_step(v, blk, Blake2s_Mixes[j]), blk, j + 1, n - 1)

RECURSIVE Blake2s_run(_, _, _)
\* all blakeMix calls from the j-th on, eight at a time (Len(v) makes v a
\* computed value before the next eight are entered)
Blake2s_run(v, blk, j) ==
    IF j > Len(Blake2s_Mixes) \/ Len(v) # 16 THEN v
    ELSE Blake2s_run(Blake2s_calls(v, blk, j, 8), blk, j + 8)

\* the capacity N of Buffer<Byte, BLOCK_SIZE> m_buffer
Blake2s_N == BLOCK_SIZE

\* a variant of the working vector that ignores isFinal
Blake2s_v_noFinalFlag(h, sizeCounter, isFinal) ==
    h \o << m_initializationVector[1], m_initializationVector[2],
            m_initializationVector[3], m_initializationVector[4],
            WXor(m_initializationVector[5], ror_u32(sizeCounter, 0)),
            WXor(m_initializationVector[6], ror_u32(sizeCounter, 32)),
            m_initializationVector[7],
            m_initializationVector[8] >>

\* the working vector v of Blake2s::addDataImpl before the blakeMix calls
Blake2s_v(h, sizeCounter, isFinal) ==
    h \o << m_initializationVector[1], m_initializationVector[2],
            m_initializationVector[3], m_initializationVector[4],
            WXor(m_initializationVector[5], ror_u32(sizeCounter, 0)),
            WXor(m_initializationVector[6], ror_u32(sizeCounter, 32)),
            IF isFinal THEN WNot(m_initializationVector[7])
                       ELSE m_initializationVector[7],
            m_initializationVector[8] >>

\* the new m_h of one iteration of the block loop of Blake2s::addDataImpl
Blake2s_compress(h, blk, sizeCounter, isFinal) ==
    Blake_fold(h, Blake2s_run(Blake2s_v(h, sizeCounter, isFinal), blk, 1))

\* a variant of the iteration that builds v before m_sizeCounter is advanced
Blake2s_block_counterBefore(self, blk, isFinal, sizeCounter) ==
    [self EXCEPT
       !.m_sizeCounter = sizeCounter,
       !.counts = Append(@, sizeCounter),
       !.m_h = Blake2s_compress(@, blk, self.m_sizeCounter, isFinal),
       !.calls = Append(@, Call(blk, self.m_sizeCounter, TRUE, isFinal))]

\* one iteration of the block loop; sizeCounter is m_sizeCounter after
\* `m_sizeCounter += (BLOCK_SIZE - paddingLen)`
Blake2s_block(self, blk, isFinal, sizeCounter) ==
    [self EXCEPT
       !.m_sizeCounter = sizeCounter,
       !.counts = Append(@, sizeCounter),
       !.m_h = Blake2s_compress(@, blk, sizeCounter, isFinal),
       !.calls = Append(@, Call(blk, sizeCounter, TRUE, isFinal))]

RECURSIVE Blake2s_blocks(_, _, _, _, _)
\* the block loop of Blake2s::addDataImpl from iteration iter on
Blake2s_blocks(self, data, isFinal, paddingLen, iter) ==
    IF iter >= Len(data) \div BLOCK_SIZE THEN self
    ELSE Blake2s_blocks(
           Blake2s_block(self, BlockAt(data, iter), isFinal,
                         U64Add(self.m_sizeCounter, U64OfInt(BLOCK_SIZE - paddingLen))),
           data, isFinal, paddingLen, iter + 1)

\* Blake2s::addDataImpl(data, isFinal, paddingLen)
Blake2s_addDataImpl(self, data, isFinal, paddingLen) ==
    Blake2s_blocks(Noted(self, "addDataImpl", Len(data)), data, isFinal, paddingLen, 0)

\* Blake2s::reset()
Blake2s_reset(self) ==
    [self EXCEPT
       !.m_buffer = <<>>,
       !.m_sizeCounter = U64OfNat(0),
       !.m_h = [m_initializationVector EXCEPT ![1] = WXor(@, W(\h0101, \h0020))],
       !.counts = Append(@, U64OfNat(0)),
       !.events = Append(@, <<"clear", 0>>)]

\* Blake2s::toArray()
Blake2s_toArray(self) ==
    [n \in 1..32 |-> ror_Byte(self.m_h[((n - 1) \div 4) + 1], ((n - 1) % 4) * 8)]

\* a variant of `remainder` that is 0 on a block boundary, so that the bulk
\* call takes the last whole block too
Blake2s_remainder_eager(dataSize) == dataSize % BLOCK_SIZE

\* Blake2s::addData, the local `remainder`
Blake2s_remainder(dataSize) ==
    IF (dataSize % BLOCK_SIZE) # 0 THEN dataSize % BLOCK_SIZE ELSE BLOCK_SIZE

\* a variant of the bulk call that takes every whole block of data and leaves
\* in the buffer only the bytes that do not complete a block
Blake2s_addData_bulk_whole(self, data) ==
    [Pushed(Blake2s_addDataImpl(self, First(data, Len(data) - (Len(data) % BLOCK_SIZE)),
                                FALSE, 0),
            Blake2s_N, 0, Len(data) % BLOCK_SIZE)
       EXCEPT !.m_buffer = Subspan(data, Len(data) - (Len(data) % BLOCK_SIZE)),
              !.events = Append(@, <<"assign", Len(data) % BLOCK_SIZE>>)]

\* Blake2s::addData from `const size_t dataSize = data.size()` on: the bulk
\* call and the leftovers or last block put in the buffer
Blake2s_addData_bulk(self, data) ==
    [Pushed(Blake2s_addDataImpl(self, First(data, Len(data) - Blake2s_remainder(Len(data))),
                                FALSE, 0),
            Blake2s_N, 0, Blake2s_remainder(Len(data)))
       EXCEPT !.m_buffer = Subspan(data, Len(data) - Blake2s_remainder(Len(data))),
              !.events = Append(@, <<"assign", Blake2s_remainder(Len(data))>>)]

\* a variant of the top-up that assigns the bytes to the buffer instead of
\* appending them
Blake2s_addData_fill_assign(self, inData, len) ==
    [Pushed(self, Blake2s_N, 0, len)
       EXCEPT !.m_buffer = First(inData, len),
              !.events = Append(@, <<"assign", len>>)]

\* Blake2s::addData, the `else if (!m_buffer.empty())` part up to the
\* recursive call: the buffer topped up with the first len bytes
Blake2s_addData_fill(self, inData, len) ==
    [Pushed(self, Blake2s_N, Len(self.m_buffer), len)
       EXCEPT !.m_buffer = Buffer_push_back(@, First(inData, len)),
              !.events = Append(@, <<"push_back", len>>)]

\* history of the self-recursion of Blake2s::addData: nesting is the number of
\* addData frames on the stack below the current one, depth the largest
\* nesting reached during the call, and nested lists what each nested call
\* found: the bytes in the buffer and the bytes of its inData
Blake2s_enter(self, inData) ==
    [self EXCEPT
       !.nesting = @ + 1,
       !.depth = Max(@, self.nesting + 1),
       !.nested = Append(@, [size |-> Len(self.m_buffer), rest |-> Len(inData)])]

\* the recursive call has returned
Blake2s_return(self) == [self EXCEPT !.nesting = @ - 1]

\* a variant of the local `len` that tops the buffer up by half of its free
\* space (rounded up) at most
Blake2s_fillLen_half(self, inData) ==
    Min(((BLOCK_SIZE - Len(self.m_buffer)) + 1) \div 2, Len(inData))

\* Blake2s::addData, the local `len` of the `else if (!m_buffer.empty())` part
Blake2s_fillLen(self, inData) ==
    Min(BLOCK_SIZE - Len(self.m_buffer), Len(inData))

RECURSIVE Blake2s_addData(_, _)
\* Blake2s::addData(inData)
Blake2s_addData(self, inData) ==
    IF inData = <<>> THEN self
    ELSE IF Len(self.m_buffer) = BLOCK_SIZE
      THEN Blake2s_addData_bulk(
             Cleared(Blake2s_addDataImpl(Noted(self, "m_buffer", Len(self.m_buffer)),
                                         self.m_buffer, FALSE, 0)),
             inData)
    ELSE IF self.m_buffer # <<>>
      THEN Blake2s_return(
             Blake2s_addData(
               Blake2s_enter(
                 Blake2s_addData_fill(self, inData, Blake2s_fillLen(self, inData)),
                 Subspan(inData, Blake2s_fillLen(self, inData))),
               Subspan(inData, Blake2s_fillLen(self, inData))))
    ELSE Blake2s_addData_bulk(self, inData)

\* the local `len` of Blake2s::finalize
Blake2s_padLen(buf) == BLOCK_SIZE - Len(buf)

\* a variant of the call that passes isFinal = false
Blake2s_finalize_run_notFinal(self, len) ==
    Cleared(Blake2s_addDataImpl(Noted(self, "m_buffer", Len(self.padded)),
                                self.padded, FALSE, len))

\* Blake2s::finalize, `addDataImpl({...}, true, len); m_buffer.clear()`
Blake2s_finalize_run(self, len) ==
    Cleared(Blake2s_addDataImpl(Noted(self, "m_buffer", Len(self.padded)),
                                self.padded, TRUE, len))

\* Blake2s::finalize()
Blake2s_finalize(self) ==
    Blake2s_finalize_run(
      [Filled(self, Blake2s_N, Len(self.m_buffer), Blake2s_padLen(self.m_buffer))
         EXCEPT !.padded = Buffer_fill(self.m_buffer, 0, Blake2s_padLen(self.m_buffer)),
                !.events = Append(@, <<"fill", Blake2s_padLen(self.m_buffer)>>)],
      Blake2s_padLen(self.m_buffer))

----------------------------------------------------------------------------
(* The engine as a state machine                                           *)

Algorithms == {"MD4", "Blake1_256", "Blake2s"}

\* bytes fed between construction/reset and the end of a run, at most
MaxTotal == 129

\* addData / finalize calls issued after a finalize and before reset, at most
MaxLate == 1

\* the caller's byte stream: "abcdefg..." (0x61, 0x62, ...)
Msg(i) == (96 + i) % 256

\* the lengths of the spans the caller passes to addData
ChunkSizes == {0, 1, BLOCK_SIZE - 9, BLOCK_SIZE, 2 * BLOCK_SIZE}

VARIABLES
    alg,            \* which class the engine is an instance of
    m_buffer,       \* Buffer<Byte, N> m_buffer
    m_sizeCounter,  \* uint64_t m_sizeCounter
    m_h,            \* uint32_t m_h[8] (m_state[4] in MD4): the chaining state
    calls,          \* history: the blocks compressed since construction/reset
    padded,         \* history: the span the last finalize handed to addDataImpl
    fed,            \* history: bytes passed to addData since construction/reset
    finals,         \* history: finalize calls since construction/reset
    late,           \* history: addData/finalize calls issued after a finalize
    lastOp,         \* the member function that returned last
    resetFrom,      \* history: where in its lifecycle the object was when the
                    \* last call, if it was reset, found it
    ret,            \* the array returned by the last call, if it was toArray
    peak,           \* history: the largest m_dataEndIdx during the last call
    outOfBounds,    \* history: a bounds check of Buffer failed during the last call
    counts,         \* history: the values of m_sizeCounter during the last call
    depth,          \* history: the deepest nesting of addData in itself during
                    \* the last call
    nested,         \* history: what each nested addData of the last call found
    events          \* history: the Buffer operations and addDataImpl calls of
                    \* the last call, in order

vars == <<alg, m_buffer, m_sizeCounter, m_h, calls, padded, fed, finals, late,
          lastOp, resetFrom, ret, peak, outOfBounds, counts, depth, nested,
          events>>

\* the object (with its history) as a record, for the member-function
\* operators; the histories of a single call are as a call finds them
Self ==
    [m_buffer |-> m_buffer, m_sizeCounter |-> m_sizeCounter, m_h |-> m_h,
     calls |-> calls, padded |-> padded,
     peak |-> Len(m_buffer), outOfBounds |-> FALSE,
     counts |-> <<m_sizeCounter>>, nesting |-> 0, depth |-> 0, nested |-> <<>>,
     events |-> <<>>]

\* the members as the default member initialisers leave them
DefaultMembers(a) ==
    [m_buffer |-> <<>>, m_sizeCounter |-> U64OfNat(0),
     m_h |-> [i \in 1..(IF a = "MD4" THEN 4 ELSE 8) |-> W(0, 0)],
     calls |-> <<>>, padded |-> <<>>,
     peak |-> 0, outOfBounds |-> FALSE,
     counts |-> <<U64OfNat(0)>>, nesting |-> 0, depth |-> 0, nested |-> <<>>,
     events |-> <<>>]

reset(a, self) ==
    CASE a = "MD4" -> MD4_reset(self)
      [] a = "Blake1_256" -> Blake1_reset(self)
      [] a = "Blake2s" -> Blake2s_reset(self)

addData(a, self, inData) ==
    CASE a = "MD4" -> MD4_addData(self, inData)
      [] a = "Blake1_256" -> Blake1_addData(self, inData)
      [] a = "Blake2s" -> Blake2s_addData(self, inData)

\* a variant of finalize() that returns at once on an object finalize() has
\* already padded
finalize_guarded(a, self) ==
    IF self.padded # <<>> THEN self
    ELSE CASE a = "MD4" -> MD4_finalize(self)
           [] a = "Blake1_256" -> Blake1_finalize(self)
           [] a = "Blake2s" -> Blake2s_finalize(self)

finalize(a, self) ==
    CASE a = "MD4" -> MD4_finalize(self)
      [] a = "Blake1_256" -> Blake1_finalize(self)
      [] a = "Blake2s" -> Blake2s_finalize(self)

toArray(a, self) ==
    CASE a = "MD4" -> MD4_toArray(self)
      [] a = "Blake1_256" -> Blake1_toArray(self)
      [] a = "Blake2s" -> Blake2s_toArray(self)

\* a variant of toArray() that finalizes the object before exporting
toArray_after_finalizing(a, self) == finalize(a, self)

\* the object after toArray() const: the function reads the chaining state
\* into a local array and assigns no member
toArray_after(a, self) == self

\* the constructors MD4(), Blake1_256(), Blake2s(): reset() on the defaults
Construct(a) == reset(a, DefaultMembers(a))

\* the next n bytes of the caller's stream
NextBytes(from, n) == [i \in 1..n |-> Msg(from + i)]

\* the object as a member function leaves it
Returned(self) ==
    /\ m_buffer' = self.m_buffer
    /\ m_sizeCounter' = self.m_sizeCounter
    /\ m_h' = self.m_h
    /\ calls' = self.calls
    /\ padded' = self.padded
    /\ peak' = self.peak
    /\ outOfBounds' = self.outOfBounds
    /\ counts' = self.counts
    /\ depth' = self.depth
    /\ nested' = self.nested
    /\ events' = self.events

Init ==
    /\ alg \in Algorithms
    /\ m_buffer = Construct(alg).m_buffer
    /\ m_sizeCounter = Construct(alg).m_sizeCounter
    /\ m_h = Construct(alg).m_h
    /\ calls = <<>>
    /\ padded = <<>>
    /\ peak = Construct(alg).peak
    /\ outOfBounds = Construct(alg).outOfBounds
    /\ counts = Construct(alg).counts
    /\ depth = Construct(alg).depth
    /\ nested = Construct(alg).nested
    /\ events = Construct(alg).events
    /\ fed = 0
    /\ finals = 0
    /\ late = 0
    /\ lastOp = "new"
    /\ resetFrom = ""
    /\ ret = <<>>

\* where in its lifecycle the object is
Lifecycle ==
    IF finals > 0 THEN "finalized"
    ELSE IF m_buffer # <<>> THEN "buffered"
    ELSE IF fed > 0 THEN "drained"
    ELSE "fresh"

\* reset(); the history starts anew
Reset ==
    /\ Returned([reset(alg, Self) EXCEPT !.calls = <<>>, !.padded = <<>>])
    /\ fed' = 0
    /\ finals' = 0
    /\ late' = 0
    /\ lastOp' = "reset"
    /\ resetFrom' = Lifecycle
    /\ ret' = <<>>
    /\ UNCHANGED alg

\* addData(inData) with the next n bytes of the stream
Feed(n) ==
    /\ fed + n <= MaxTotal
    /\ Returned(addData(alg, Self, NextBytes(fed, n)))
    /\ fed' = fed + n
    /\ lastOp' = "addData"
    /\ resetFrom' = ""
    /\ ret' = <<>>
    /\ UNCHANGED <<alg, finals>>

\* finalize()
Finish ==
    /\ Returned(finalize(alg, Self))
    /\ finals' = finals + 1
    /\ lastOp' = "finalize"
    /\ resetFrom' = ""
    /\ ret' = <<>>
    /\ UNCHANGED <<alg, fed>>

\* addData called as the lifecycle allows: before finalize
AddData(n) == finals = 0 /\ Feed(n) /\ UNCHANGED late

\* finalize called as the lifecycle allows: once
Finalize == finals = 0 /\ Finish /\ UNCHANGED late

\* addData called after finalize and before reset; the code executes the call,
\* and the model follows at most MaxLate such calls
LateAddData(n) == finals > 0 /\ late < MaxLate /\ Feed(n) /\ late' = late + 1

\* finalize called after finalize and before reset
LateFinalize == finals > 0 /\ late < MaxLate /\ Finish /\ late' = late + 1

\* toArray() const
ToArray ==
    /\ Returned(toArray_after(alg, Self))
    /\ ret' = toArray(alg, Self)
    /\ lastOp' = "toArray"
    /\ UNCHANGED <<alg, fed, finals, late, resetFrom>>

Next ==
    \/ Reset
    \/ \E n \in ChunkSizes : AddData(n)
    \/ Finalize
    \/ ToArray

\* the object used as its lifecycle allows
Spec == Init /\ [][Next]_vars

NextMisuse ==
    \/ Next
    \/ \E n \in ChunkSizes : LateAddData(n)
    \/ LateFinalize

\* the object used in any order of calls
SpecMisuse == Init /\ [][NextMisuse]_vars

----------------------------------------------------------------------------
(* Properties                                                              *)

\* the chaining state, counter and buffer of an engine value
MembersOf(self) == <<self.m_buffer, self.m_sizeCounter, self.m_h>>

\* a fresh engine after one addData call with the first n bytes of the stream
OneShot(a, n) == addData(a, Construct(a), NextBytes(0, n))

\* the same engine after finalize, if finalize has been called
OneShotRun(a, n, finalized) ==
    IF finalized THEN finalize(a, OneShot(a, n)) ELSE OneShot(a, n)

\* two engine values have compressed the same blocks with the same counter
\* values and flags, hold the same members and export the same digest
SameRun(a, self, other) ==
    /\ self.calls = other.calls
    /\ MembersOf(self) = MembersOf(other)
    /\ toArray(a, self) = toArray(a, other)

\* the object has been fed and at most finalized once since construction/reset,
\* and the call that returned last is addData or finalize
InContract == late = 0 /\ finals <= 1 /\ lastOp \in {"addData", "finalize"}

\* C1: MD4 and BLAKE1-256: however the bytes fed so far were split into
\* addData calls, the blocks compressed with their counter values, the members
\* and the digest are those of a single addData call with all the bytes
\* (followed by finalize when the object has been finalized).
C1_ChunkingInvariance ==
    (alg \in {"MD4", "Blake1_256"} /\ InContract)
        => SameRun(alg, Self, OneShotRun(alg, fed, finals = 1))

\* C1 witness: a finalized BLAKE1-256 object that was fed two blocks and one
\* byte; no single call of the model feeds that many bytes.
C1_Witness ==
    /\ alg = "Blake1_256"
    /\ fed = (2 * BLOCK_SIZE) + 1
    /\ finals = 1 /\ late = 0 /\ lastOp = "finalize"
    /\ Len(calls) = 3

\* C2: BLAKE2s: however the bytes fed so far were split into addData calls,
\* the (block, counter, final flag) triples compressed by the feeds and by
\* finalize, the members and the digest are those of a single addData call with
\* all the bytes followed by finalize.
C2_ChunkingInvarianceBlake2s ==
    (alg = "Blake2s" /\ InContract)
        => SameRun(alg, Self, OneShotRun(alg, fed, finals = 1))

\* C2 witness: a finalized BLAKE2s object that was fed one block and one byte
\* (the block was drained by the call that brought the last byte).
C2_Witness ==
    /\ alg = "Blake2s"
    /\ fed = BLOCK_SIZE + 1
    /\ finals = 1 /\ late = 0 /\ lastOp = "finalize"
    /\ Len(calls) = 2
    /\ calls[2].isFinal /\ ~calls[1].isFinal

\* the bytes pending in the buffer when finalize was called (MD4, BLAKE1-256)
Pending == fed % BLOCK_SIZE

\* the blocks the finalize call compressed (MD4, BLAKE1-256)
FinalBlocks == Len(calls) - (fed \div BLOCK_SIZE)

\* C3: MD4 and BLAKE1-256: finalize with p pending bytes appends 0x80, the
\* fewest zero bytes that bring the length to 56 modulo 64 and the 8-byte
\* length field, so it compresses one block when p <= 55 and two when
\* 56 <= p <= 63.
C3_PaddingLength ==
    (alg \in {"MD4", "Blake1_256"} /\ InContract /\ finals = 1)
        => /\ Len(padded) = Pending + 1 + ((55 - Pending) % BLOCK_SIZE) + 8
           /\ FinalBlocks = (IF Pending <= 55 THEN 1 ELSE 2)

\* the last n bytes of a sequence
Last(s, n) == SubSeq(s, Len(s) - n + 1, Len(s))

\* C4: BLAKE2s: after 64*k bytes (k >= 1) and finalize exactly k blocks have
\* been compressed; only the last carries the final flag, and it is the last
\* 64 bytes of the message with no padding byte.
C4_MultiBlockBoundary ==
    (alg = "Blake2s" /\ InContract /\ finals = 1
       /\ fed >= BLOCK_SIZE /\ fed % BLOCK_SIZE = 0)
        => /\ Len(calls) = fed \div BLOCK_SIZE
           /\ \A i \in 1..Len(calls) : calls[i].isFinal <=> (i = Len(calls))
           /\ \A i \in 1..Len(calls) :
                calls[i].block = NextBytes((i - 1) * BLOCK_SIZE, BLOCK_SIZE)
           /\ padded = NextBytes(fed - BLOCK_SIZE, BLOCK_SIZE)

\* C4 witness: BLAKE2s finalized after exactly two blocks of input.
C4_Witness ==
    /\ alg = "Blake2s"
    /\ fed = 2 * BLOCK_SIZE
    /\ finals = 1 /\ late = 0 /\ lastOp = "finalize"
    /\ Len(calls) = 2

\* byte i (0 = least significant) of the bit count of n message bytes
BitCountByte(n, i) == IF i < 4 THEN ((8 * n) \div (256 ^ i)) % 256 ELSE 0

\* C5: MD4 and BLAKE1-256: the last 8 bytes finalize hands to compression hold
\* 8 * (bytes fed): MD4 low word first, each word little-endian; BLAKE1-256
\* high word first, each word big-endian.
C5_EmbeddedLength ==
    (alg \in {"MD4", "Blake1_256"} /\ InContract /\ finals = 1)
        => Last(padded, 8) =
             IF alg = "MD4" THEN [i \in 1..8 |-> BitCountByte(fed, i - 1)]
                            ELSE [i \in 1..8 |-> BitCountByte(fed, 8 - i)]

\* C5 witness: MD4 finalized after 129 bytes fed in several calls; the bit
\* count 1032 = 0x0408 occupies two bytes of the field.
C5_Witness ==
    /\ alg = "MD4"
    /\ fed = (2 * BLOCK_SIZE) + 1
    /\ finals = 1 /\ late = 0 /\ lastOp = "finalize"
    /\ Last(padded, 8) = <<8, 4, 0, 0, 0, 0, 0, 0>>

\* C6: reset() in any state leaves the chaining state, the counter and the
\* buffer as the constructor leaves them.
C6_ResetEquivalence ==
    lastOp = "reset" => MembersOf(Self) = MembersOf(Construct(alg))

\* C6 witness: reset() has returned on an object that had been finalized.
C6_Witness == lastOp = "reset" /\ resetFrom = "finalized"

\* C7: a toArray() call changes neither the buffer, the counter nor the
\* chaining state, and the bytes it returns are the export of the state it
\* leaves, so that a further toArray() returns the same bytes.
C7_DigestStability ==
    [][lastOp' = "toArray"
         => /\ UNCHANGED <<m_buffer, m_sizeCounter, m_h>>
            /\ ret' = toArray(alg, Self)']_vars

\* C7 witness: toArray() has returned on a finalized object that was fed.
C7_Witness ==
    /\ lastOp = "toArray"
    /\ finals = 1 /\ late = 0
    /\ fed > 0
    /\ ret = toArray(alg, Self)

\* MD4("") and MD4("a"), RFC 1320 appendix A.5
MD4_digest_empty ==
    << \h31, \hd6, \hcf, \he0, \hd1, \h6a, \he9, \h31,
       \hb7, \h3c, \h59, \hd7, \he0, \hc0, \h89, \hc0 >>

MD4_digest_a ==
    << \hbd, \he5, \h2c, \hb3, \h1d, \he3, \h3e, \h46,
       \h24, \h5e, \h05, \hfb, \hdb, \hd6, \hfb, \h24 >>

\* the object has been finalized once and the call that returned last is
\* toArray
Exported == finals = 1 /\ late = 0 /\ lastOp = "toArray"

\* C8: toArray() of an MD4 object finalized after no bytes returns
\* 31d6cfe0d16ae931b73c59d7e0c089c0, and after the byte "a" it returns
\* bde52cb31de33e46245e05fbdbd6fb24.
C8_MD4KnownAnswers ==
    (alg = "MD4" /\ Exported)
        => /\ fed = 0 => ret = MD4_digest_empty
           /\ (fed = 1 /\ NextBytes(0, 1) = <<97>>) => ret = MD4_digest_a

\* C8 witness: toArray() has returned on an MD4 object finalized after "a".
C8_Witness ==
    /\ alg = "MD4" /\ Exported
    /\ fed = 1 /\ NextBytes(0, fed) = <<97>>
    /\ Len(calls) = 1 /\ Len(ret) = 16

\* BLAKE2s-256("abc"), RFC 7693 appendix B
Blake2s_digest_abc ==
    << \h50, \h8c, \h5e, \h8c, \h32, \h7c, \h14, \he2,
       \he1, \ha7, \h2b, \ha3, \h4e, \heb, \h45, \h2f,
       \h37, \h45, \h8b, \h20, \h9e, \hd6, \h3a, \h29,
       \h4d, \h99, \h9b, \h4c, \h86, \h67, \h59, \h82 >>

\* C9: toArray() of a BLAKE2s object finalized after the bytes "abc" returns
\* 508c5e8c327c14e2e1a72ba34eeb452f37458b209ed63a294d999b4c86675982.
C9_Blake2sKnownAnswer ==
    (alg = "Blake2s" /\ Exported /\ fed = 3 /\ NextBytes(0, 3) = <<97, 98, 99>>)
        => ret = Blake2s_digest_abc

\* C9 witness: toArray() has returned on a BLAKE2s object finalized after "abc".
C9_Witness ==
    /\ alg = "Blake2s" /\ Exported
    /\ fed = 3 /\ NextBytes(0, fed) = <<97, 98, 99>>
    /\ Len(calls) = 1 /\ calls[1].isFinal /\ Len(ret) = 32

\* C10 as stated: a finalize or addData issued after finalize and before
\* reset is not executed: it changes neither the chaining state, the counter
\* nor the buffer.
C10_TerminalStateGuard ==
    [][(finals >= 1 /\ late' > late)
         => UNCHANGED <<m_buffer, m_sizeCounter, m_h>>]_vars

\* C10 as amended: a finalize or addData issued after finalize and before
\* reset is not detected but executed like any other: the finalize compresses
\* at least one more block, and an addData of at least one byte buffers the
\* bytes or compresses.
C10_LateCallsExecute ==
    [][(finals >= 1 /\ late' > late)
         => /\ finals' > finals => Len(calls') > Len(calls)
            /\ fed' > fed => (m_buffer' # m_buffer \/ Len(calls') > Len(calls))]_vars

\* C10 witness: a second finalize has returned and has compressed a block.
C10_Witness ==
    /\ finals = 2 /\ late = 1 /\ lastOp = "finalize"
    /\ Len(calls) > fed \div BLOCK_SIZE + 1


\* C11: in any order of reset, addData, finalize and toArray calls, and at
\* every Buffer operation inside a call, the buffer holds at most 64 bytes in
\* BLAKE2s and at most 128 in MD4 and BLAKE1-256, and no bounds check of a
\* debug build against the buffer's capacity fails.
C11_BufferCapacity ==
    /\ Len(m_buffer) <= peak
    /\ peak <= (IF alg = "Blake2s" THEN 64 ELSE 128)
    /\ ~outOfBounds

\* C11 witness: an MD4 finalize has filled the buffer to its capacity of two
\* blocks.
C11_Witness ==
    /\ alg = "MD4"
    /\ lastOp = "finalize"
    /\ peak = 2 * BLOCK_SIZE
    /\ Len(padded) = 2 * BLOCK_SIZE

\* C12 as stated: after feeds and at most one finalize, m_sizeCounter is the
\* number of message bytes (bits in BLAKE1-256) that have passed through
\* compression: 64 per block compressed by the feeds, and all the bytes fed
\* once finalize has returned; padding is never counted.
C12_CounterExcludesPadding ==
    InContract
        => m_sizeCounter =
             U64OfNat((IF alg = "Blake1_256" THEN 8 ELSE 1)
                        * (IF finals = 1 THEN fed ELSE BLOCK_SIZE * Len(calls)))

\* uint64_t operator<=, on the limbs (least significant first)
U64Leq(c, d) ==
    \/ c = d
    \/ \E i \in 1..4 : c[i] < d[i] /\ \A j \in (i + 1)..4 : c[j] = d[j]

\* C13 as stated: no update of m_sizeCounter inside an addData or finalize
\* call decreases it.
C13_CounterMonotone ==
    lastOp \in {"addData", "finalize"}
        => \A i \in 1..(Len(counts) - 1) : U64Leq(counts[i], counts[i + 1])

\* C14: the calls return, and Blake2s::addData calls itself at most once per
\* call, never from the nested call: the nested call finds either an empty
\* inData and returns at once, or a full buffer and takes the path that does
\* not recurse.  (MD4 and BLAKE1-256 do not recurse at all.)
C14_RecursionDepth ==
    /\ depth <= 1
    /\ Len(nested) = depth
    /\ \A i \in 1..Len(nested) :
         nested[i].rest = 0 \/ nested[i].size = BLOCK_SIZE
    /\ alg # "Blake2s" => depth = 0

\* C14 witness: a BLAKE2s addData has topped the buffer up to a full block,
\* called itself with the bytes left over, and the nested call has drained the
\* buffer.
C14_Witness ==
    /\ alg = "Blake2s" /\ lastOp = "addData"
    /\ depth = 1
    /\ nested[1].size = BLOCK_SIZE /\ nested[1].rest > 0
    /\ Len(calls) > 0

\* C15: BLAKE2s before finalize: once a byte has been fed, every addData
\* leaves 1..64 bytes in the buffer, the last bytes of the stream, and has
\* compressed (final flag clear) only the blocks before them; a full buffer is
\* left alone by an empty addData and is the next block compressed by an
\* addData that supplies a byte.
C15_LazyDrain ==
    [][(alg = "Blake2s" /\ finals' = 0 /\ lastOp' = "addData")
         => /\ fed' > 0
                => /\ Len(m_buffer') \in 1..BLOCK_SIZE
                   /\ m_buffer' = NextBytes(fed' - Len(m_buffer'), Len(m_buffer'))
                   /\ BLOCK_SIZE * Len(calls') = fed' - Len(m_buffer')
            /\ \A i \in 1..Len(calls') : ~calls'[i].isFinal
            /\ (Len(m_buffer) = BLOCK_SIZE /\ fed' = fed)
                => (calls' = calls /\ m_buffer' = m_buffer)
            /\ (Len(m_buffer) = BLOCK_SIZE /\ fed' > fed)
                => /\ Len(calls') > Len(calls)
                   /\ calls'[Len(calls) + 1].block = m_buffer]_vars

\* C15 witness: after two blocks of input BLAKE2s has compressed the first
\* block and holds the second, full block in the buffer.
C15_Witness ==
    /\ alg = "Blake2s" /\ finals = 0 /\ lastOp = "addData"
    /\ fed = 2 * BLOCK_SIZE
    /\ Len(m_buffer) = BLOCK_SIZE
    /\ Len(calls) = 1 /\ ~calls[1].isFinal
    /\ depth = 0

\* C16: BLAKE2s, from construction/reset to the return of one finalize: no
\* compression of an addData has the final flag; finalize performs exactly one
\* compression with the flag, the last one, on the block it padded; the flag
\* makes v[14] the inverted IV word.
C16_FinalFlag ==
    (alg = "Blake2s" /\ late = 0 /\ finals <= 1)
        => /\ finals = 0 => \A i \in 1..Len(calls) : ~calls[i].isFinal
           /\ finals = 1
                => /\ Len(calls) >= 1
                   /\ \A i \in 1..Len(calls) : calls[i].isFinal <=> (i = Len(calls))
                   /\ calls[Len(calls)].block = padded
           /\ Blake2s_v(m_h, m_sizeCounter, TRUE)[15] = WNot(m_initializationVector[7])
           /\ Blake2s_v(m_h, m_sizeCounter, FALSE)[15] = m_initializationVector[7]

\* C16 witness: BLAKE2s finalized after 129 bytes: two blocks compressed by
\* addData, the third by finalize.
C16_Witness ==
    /\ alg = "Blake2s" /\ late = 0 /\ finals = 1
    /\ fed = (2 * BLOCK_SIZE) + 1
    /\ Len(calls) = 3
    /\ calls[3].isFinal /\ ~calls[2].isFinal /\ ~calls[1].isFinal

\* a counter value with four different limbs: 0x0004000300020001
WideCounter == <<1, 2, 3, 4>>

\* C17: BLAKE2s: the counter mixed into the i-th compressed block is 64 * i
\* for a block without the final flag and the number of bytes fed for the
\* final block; its low 32 bits are XORed into v[12], its high 32 bits into
\* v[13].
C17_Blake2sBlockCounter ==
    (alg = "Blake2s" /\ late = 0 /\ finals <= 1)
        => /\ \A i \in 1..Len(calls) :
                /\ calls[i].mixed
                /\ calls[i].counter =
                     U64OfNat(IF calls[i].isFinal THEN fed ELSE BLOCK_SIZE * i)
           /\ Blake2s_v(m_h, WideCounter, FALSE)[13]
                = WXor(m_initializationVector[5], W(2, 1))
           /\ Blake2s_v(m_h, WideCounter, FALSE)[14]
                = WXor(m_initializationVector[6], W(4, 3))

\* C17 witness: BLAKE2s finalized after 129 bytes fed in several calls: the
\* counters of the three blocks are 64, 128 and 129.
C17_Witness ==
    /\ alg = "Blake2s" /\ late = 0 /\ finals = 1 /\ lastOp = "finalize"
    /\ fed = (2 * BLOCK_SIZE) + 1
    /\ Len(calls) = 3
    /\ calls[1].counter = U64OfNat(BLOCK_SIZE)
    /\ calls[2].counter = U64OfNat(2 * BLOCK_SIZE)
    /\ calls[3].counter = U64OfNat((2 * BLOCK_SIZE) + 1)

\* the message bytes in the i-th 64-byte block of the padded stream
MessageBytes(i) == Max(0, Min(fed, BLOCK_SIZE * i) - (BLOCK_SIZE * (i - 1)))

\* C18 as stated: BLAKE1-256: a compressed block that holds message bytes is
\* compressed with the counter equal to the message bits up to and including
\* its own, and a block of padding only with no counter; for the blocks of
\* addData and the one or two blocks of finalize.
C18_Blake1BlockCounter ==
    (alg = "Blake1_256" /\ late = 0 /\ finals <= 1)
        => \A i \in 1..Len(calls) :
             IF MessageBytes(i) > 0
               THEN /\ calls[i].mixed
                    /\ calls[i].counter = U64OfNat(8 * Min(fed, BLOCK_SIZE * i))
             ELSE ~calls[i].mixed

\* C19: before finalize, in each engine: the blocks compressed so far are the
\* consecutive 64-byte blocks of the stream fed, and the buffer holds the
\* bytes that follow them, up to the last byte fed.
C19_StreamConservation ==
    (finals = 0 /\ late = 0)
        => /\ \A i \in 1..Len(calls) :
                calls[i].block = NextBytes(BLOCK_SIZE * (i - 1), BLOCK_SIZE)
           /\ m_buffer = NextBytes(BLOCK_SIZE * Len(calls), Len(m_buffer))
           /\ (BLOCK_SIZE * Len(calls)) + Len(m_buffer) = fed

\* C19 witness: an MD4 addData of two blocks on a buffer of one byte: 63 bytes
\* went through the buffer, one block through the bulk call, and one byte is
\* left over.
C19_Witness ==
    /\ alg = "MD4" /\ finals = 0 /\ lastOp = "addData"
    /\ fed = (2 * BLOCK_SIZE) + 1
    /\ peak = BLOCK_SIZE
    /\ Len(calls) = 2
    /\ m_buffer = <<Msg(fed)>>

\* C20 as stated: whenever addData returns, the buffer holds fewer than 64
\* bytes.
C20_LeftoverBound == lastOp = "addData" => Len(m_buffer) < BLOCK_SIZE

\* C20 as amended: whenever addData returns, the buffer of MD4 and BLAKE1-256
\* holds the fed % 64 bytes that do not complete a block, fewer than 64; the
\* buffer of BLAKE2s holds up to a whole block: ((fed - 1) % 64) + 1 bytes
\* once a byte has been fed, so 64 on a block boundary.
C20_LeftoverBoundByEngine ==
    (lastOp = "addData" /\ finals = 0)
        => IF alg = "Blake2s"
             THEN /\ Len(m_buffer) <= BLOCK_SIZE
                  /\ fed > 0 => Len(m_buffer) = ((fed - 1) % BLOCK_SIZE) + 1
                  /\ fed = 0 => m_buffer = <<>>
           ELSE /\ Len(m_buffer) < BLOCK_SIZE
                /\ Len(m_buffer) = fed % BLOCK_SIZE

\* C20 witness: a BLAKE2s addData has returned with a whole block in the
\* buffer and nothing compressed.
C20_Witness ==
    /\ alg = "Blake2s" /\ lastOp = "addData" /\ finals = 0
    /\ fed = BLOCK_SIZE
    /\ Len(m_buffer) = BLOCK_SIZE
    /\ calls = <<>>

\* the sizes of the spans the last call has passed to addDataImpl, in order
ImplSizes == SelectSeq(events, LAMBDA e : e[1] = "addDataImpl")

\* C21: in every reachable state, every call of addDataImpl made by the last
\* addData or finalize was given a whole number of blocks (its assertion
\* holds), and finalize made one call: with exactly 64 bytes in BLAKE2s, with
\* 64 or 128 bytes in MD4 and BLAKE1-256.
C21_WholeBlocks ==
    /\ \A i \in DOMAIN ImplSizes : ImplSizes[i][2] % BLOCK_SIZE = 0
    /\ lastOp = "finalize"
         => /\ Len(ImplSizes) = 1
            /\ ImplSizes[1][2] \in
                 (IF alg = "Blake2s" THEN {BLOCK_SIZE} ELSE {BLOCK_SIZE, 2 * BLOCK_SIZE})

\* C21 witness: an MD4 finalize that handed two blocks to addDataImpl
C21_Witness ==
    /\ alg = "MD4" /\ lastOp = "finalize"
    /\ ImplSizes = <<<<"addDataImpl", 2 * BLOCK_SIZE>>>>
    /\ Len(padded) = 2 * BLOCK_SIZE

\* C22: an addData whose bytes, together with the bytes already pending,
\* total fewer than 64 compresses no block, leaves the chaining state and the
\* length counter as they were, and leaves the buffer equal to its old
\* contents followed by the supplied bytes; an addData of no bytes leaves
\* every member as it was.
C22_FeedWithoutCompression ==
    [][(lastOp' = "addData" /\ Len(m_buffer) + (fed' - fed) < BLOCK_SIZE)
         => /\ calls' = calls
            /\ m_h' = m_h
            /\ m_sizeCounter' = m_sizeCounter
            /\ m_buffer' = m_buffer \o NextBytes(fed, fed' - fed)
            /\ fed' = fed => UNCHANGED <<m_buffer, m_sizeCounter, m_h, padded>>]_vars

\* C22 witness: an addData has topped up a non-empty buffer without filling
\* it, and nothing has been compressed since reset.
C22_Witness ==
    /\ lastOp = "addData" /\ finals = 0
    /\ \E k \in 1..(BLOCK_SIZE - 1) :
         /\ events = <<<<"push_back", k>>>>
         /\ Len(m_buffer) > k
    /\ Len(m_buffer) < BLOCK_SIZE
    /\ calls = <<>>

\* the index of the last clear() among the first n events of the last call,
\* 0 if there is none
LastClear(n) ==
    IF \E i \in 1..n : events[i][1] = "clear"
      THEN CHOOSE i \in 1..n :
             /\ events[i][1] = "clear"
             /\ \A j \in (i + 1)..n : events[j][1] # "clear"
    ELSE 0

RECURSIVE StoredFrom(_)
\* the bytes that the events from index i on have put into the buffer
StoredFrom(i) ==
    IF i > Len(events) THEN 0
    ELSE (IF events[i][1] \in {"push_back", "fill", "assign"} THEN events[i][2] ELSE 0)
           + StoredFrom(i + 1)

\* C23: every time the last call handed the buffer's contents to addDataImpl,
\* its next Buffer operation was clear(), before any byte was appended; so
\* the buffer then holds only what was stored after the last clear(); and
\* after finalize the buffer holds zero bytes.
C23_ClearedAfterDrain ==
    /\ \A i \in DOMAIN events :
         events[i][1] = "m_buffer"
           => /\ i + 2 <= Len(events)
              /\ events[i + 1] = <<"addDataImpl", events[i][2]>>
              /\ events[i + 2] = <<"clear", 0>>
    /\ LastClear(Len(events)) > 0
         => Len(m_buffer) = StoredFrom(LastClear(Len(events)) + 1)
    /\ lastOp = "finalize" => m_buffer = <<>>

\* C23 witness: an MD4 addData completed the buffer with 9 bytes, handed it
\* to addDataImpl, cleared it, and then stored the 46 bytes left over.
C23_Witness ==
    /\ alg = "MD4" /\ lastOp = "addData"
    /\ events = <<<<"push_back", 9>>, <<"m_buffer", BLOCK_SIZE>>,
                  <<"addDataImpl", BLOCK_SIZE>>, <<"clear", 0>>, <<"assign", 46>>>>
    /\ Len(m_buffer) = 46

\* the message-word indices of round r (0-based) of a table of blakeMix
\* calls, in the order the 8 steps use them
Schedule(mixes, r) == [k \in 1..8 |-> <<mixes[(8 * r) + k][5], mixes[(8 * r) + k][6]>>]

\* a table of blakeMix calls is `rounds` rounds of 8 steps, and the 16
\* message-word indices of every round are a permutation of 0..15
RoundsOfEight(mixes, rounds) ==
    /\ Len(mixes) = 8 * rounds
    /\ \A r \in 0..(rounds - 1) :
         /\ {Schedule(mixes, r)[k][1] : k \in 1..8} \cup {Schedule(mixes, r)[k][2] : k \in 1..8}
              = 0..15
         /\ \A k, l \in 1..8 :
              /\ Schedule(mixes, r)[k][1] # Schedule(mixes, r)[l][2]
              /\ k # l => /\ Schedule(mixes, r)[k][1] # Schedule(mixes, r)[l][1]
                          /\ Schedule(mixes, r)[k][2] # Schedule(mixes, r)[l][2]

\* the BLAKE1-256 step g, on the working vector v and the block blk, XORs its
\* first message word with the constant indexed like its second message word,
\* and the second with the constant indexed like the first
CrossedConstants(v, blk, g) ==
    Blake1_step(v, blk, g)
      = Blake1_blakeMix(v, g[1] + 1, g[2] + 1, g[3] + 1, g[4] + 1,
                        WXor(Loader_BE(blk, g[5]), cTable[g[6] + 1]),
                        WXor(Loader_BE(blk, g[6]), cTable[g[5] + 1]),
                        W(0, 0), W(0, 0))

\* C24: a BLAKE2s block compression is 10 rounds of 8 mix steps and a
\* BLAKE1-256 block compression 14 rounds of 8; the 16 message-word indices
\* of every round are a permutation of 0..15; BLAKE1-256 rounds 10..13 use
\* the schedules of rounds 0..3; every BLAKE1-256 step XORs each of its two
\* message words with the constant indexed like the other.  The steps are
\* taken on the block compressed last and the chaining state it produced.
C24_ScheduleShape ==
    /\ RoundsOfEight(Blake2s_Mixes, 10)
    /\ RoundsOfEight(Blake1_Mixes, 14)
    /\ \A r \in 0..3 : Schedule(Blake1_Mixes, 10 + r) = Schedule(Blake1_Mixes, r)
    /\ (alg = "Blake1_256" /\ calls # <<>>)
         => /\ \A j \in DOMAIN Blake1_Mixes :
                 CrossedConstants(Blake1_v(m_h, m_sizeCounter, 0),
                                  calls[Len(calls)].block, Blake1_Mixes[j])
            /\ Blake1_run(Blake1_v(m_h, m_sizeCounter, 0), calls[Len(calls)].block,
                          (8 * 13) + 1)
                 = Blake1_calls(Blake1_v(m_h, m_sizeCounter, 0),
                                calls[Len(calls)].block, (8 * 13) + 1, 8)
    /\ (alg = "Blake2s" /\ calls # <<>>)
         => Blake2s_run(Blake2s_v(m_h, m_sizeCounter, FALSE), calls[Len(calls)].block,
                        (8 * 9) + 1)
              = Blake2s_calls(Blake2s_v(m_h, m_sizeCounter, FALSE),
                              calls[Len(calls)].block, (8 * 9) + 1, 8)

\* C24 witness: a BLAKE1-256 engine that has compressed two blocks of the
\* stream and the padding block of finalize
C24_Witness ==
    /\ alg = "Blake1_256" /\ lastOp = "finalize" /\ finals = 1
    /\ fed = 2 * BLOCK_SIZE
    /\ Len(calls) = 3
============================================================================
